---- MODULE Spec2Model ----
(***************************************************************************)
(* Embedding-drift protocol of the documentation RAG service.              *)
(*                                                                         *)
(*   app/rag_service.py         RAGService: refresh_state, is_ready, query *)
(*   app/main.py                FastAPI handlers (one RAGService/request)  *)
(*   common/embedding.py        EmbeddingConfig.config_id, normalisation   *)
(*   common/ingest.py           rebuild_collection (drop, create, add)     *)
(*   init_service/init_embeddings.py   main() of the init container        *)
(*                                                                         *)
(* The vector store (ChromaDB) is the environment: one named collection    *)
(* that is absent or present with an identity, metadata and records, and a *)
(* transport that is up or down.                                           *)
(***************************************************************************)
EXTENDS Integers, Sequences, FiniteSets, TLC

VARIABLES
    settings,   \* Settings() of the service container (main.py line 25)
    storeUp,    \* the store answers HTTP calls
    coll,       \* the collection named settings.chroma_collection, or None
    nextId,     \* identity the store gives to the next created collection
    svc,        \* a long-lived RAGService instance (its four cached fields)
    lastOp,     \* what the last call on svc did: operation, outcome, store calls
    ip,         \* the init process (init_embeddings.main), step by step
    resp,       \* the last HTTP response of the FastAPI app
    ip2,        \* a second run of rebuild_collection, concurrent with ip
    rt,         \* a thread inside svc.refresh_state(), one assignment at a time
    seen,       \* what another thread last read of svc during the refresh under way
    calc        \* the last evaluation of a pure function: inputs and outputs

\* what only the specifications of concurrent runs and pure functions change
aux == <<ip2, rt, seen, calc>>

vars == <<settings, storeUp, coll, nextId, svc, lastOp, ip, resp, aux>>

-----------------------------------------------------------------------------
(* Bounds *)

\* collections the store creates in one run (rebuilds and legacy ingests)
MaxCollections == 2
\* documents under the docs root
MaxDocs == 2
\* the k of a query, QueryRequest.k >= 1
MaxK == 2

-----------------------------------------------------------------------------
(* Values *)

\* Python's None; it compares unequal to every record and non-empty tuple.
None == <<>>

\* A Python str that the code trims: the sequence of its characters, wrapped
\* so that "" differs from None.
Str(chars) == [str |-> chars]

DEFAULT == Str(<<"d", "e", "f", "a", "u", "l", "t">>)
WHITESPACE == {" "}

\* EMBEDDING_MODEL_NAME as the environment can set it: unset, empty, padded, plain
ModelNameSettings == {None, Str(<<>>), Str(<<" ", "m">>)}
\* EMBEDDING_CONFIG_VERSION
VersionSettings == {"v1", "v2"}

\* The settings a container is started with: every model name under "v1",
\* and the unset model name under "v2".
Settings ==
    {s \in [embedding_model_name : ModelNameSettings,
            embedding_config_version : VersionSettings] :
        s.embedding_config_version = "v1" \/ s.embedding_model_name = None}

Min(a, b) == IF a <= b THEN a ELSE b

-----------------------------------------------------------------------------
(* common/embedding.py *)

RECURSIVE lstrip(_)
lstrip(s) == IF s # <<>> /\ Head(s) \in WHITESPACE THEN lstrip(Tail(s)) ELSE s

RECURSIVE rstrip(_)
rstrip(s) ==
    IF s # <<>> /\ s[Len(s)] \in WHITESPACE
    THEN rstrip(SubSeq(s, 1, Len(s) - 1))
    ELSE s

\* str.strip()
strip(s) == Str(rstrip(lstrip(s.str)))

\* `if not raw_model_name: return "default"` is taken for None and for "".
normalise_model_name(raw_model_name) ==
    IF raw_model_name = None \/ raw_model_name = Str(<<>>)
    THEN DEFAULT
    ELSE strip(raw_model_name)

EmbeddingConfig(model_name, version) ==
    [model_name |-> model_name,
     implementation |-> "sentence-transformers",
     version |-> version]

\* "".join(chars): the characters of a Str as one string
RECURSIVE join(_)
join(chars) == IF chars = <<>> THEN "" ELSE Head(chars) \o join(Tail(chars))

\* json.dumps(..., sort_keys=True): the object with its keys in sorted order
json_dumps(cfg) ==
    "{\"implementation\": \"" \o cfg.implementation
        \o "\", \"model_name\": \"" \o join(cfg.model_name.str)
        \o "\", \"version\": \"" \o cfg.version \o "\"}"

\* A Python str of hex digits, wrapped so that it compares with None.
Hex(digits) == [hex |-> digits]

\* The model names, implementations and versions whose payloads are hashed.
HashedModelNames ==
    {Str(<<"d", "e", "f", "a", "u", "l", "t">>), Str(<<"m">>), Str(<<" ", "m">>),
     Str(<<>>), Str(<<"F", "o", "o">>)}
HashedImplementations == {"sentence-transformers", "openai"}
HashedVersions == {"v1", "v2"}

\* hashlib.sha256(payload.encode("utf-8")).hexdigest()[:16] of each such
\* payload, as hashlib computes it
Sha256Hex16Table ==
    {
     <<"{\"implementation\": \"sentence-transformers\", \"model_name\": \"default\", \"version\": \"v1\"}",
       "57c40a235b0eb29c">>,
     <<"{\"implementation\": \"sentence-transformers\", \"model_name\": \"default\", \"version\": \"v2\"}",
       "7f9fd90809a930bb">>,
     <<"{\"implementation\": \"openai\", \"model_name\": \"default\", \"version\": \"v1\"}",
       "39e04a27da7f6a4a">>,
     <<"{\"implementation\": \"openai\", \"model_name\": \"default\", \"version\": \"v2\"}",
       "0b17cb73fc7def33">>,
     <<"{\"implementation\": \"sentence-transformers\", \"model_name\": \"m\", \"version\": \"v1\"}",
       "87ca221e7a437507">>,
     <<"{\"implementation\": \"sentence-transformers\", \"model_name\": \"m\", \"version\": \"v2\"}",
       "5a4d444ba8468f2e">>,
     <<"{\"implementation\": \"openai\", \"model_name\": \"m\", \"version\": \"v1\"}",
       "b71d4cb4878cf7a7">>,
     <<"{\"implementation\": \"openai\", \"model_name\": \"m\", \"version\": \"v2\"}",
       "ee23500b49f887bd">>,
     <<"{\"implementation\": \"sentence-transformers\", \"model_name\": \" m\", \"version\": \"v1\"}",
       "c387dc19c0f443a4">>,
     <<"{\"implementation\": \"sentence-transformers\", \"model_name\": \" m\", \"version\": \"v2\"}",
       "36cdf6f689a70042">>,
     <<"{\"implementation\": \"openai\", \"model_name\": \" m\", \"version\": \"v1\"}",
       "56249d03d637a6e3">>,
     <<"{\"implementation\": \"openai\", \"model_name\": \" m\", \"version\": \"v2\"}",
       "b713d05d26c06e53">>,
     <<"{\"implementation\": \"sentence-transformers\", \"model_name\": \"\", \"version\": \"v1\"}",
       "f3a048cea40df5af">>,
     <<"{\"implementation\": \"sentence-transformers\", \"model_name\": \"\", \"version\": \"v2\"}",
       "f64335d6e6f6638a">>,
     <<"{\"implementation\": \"openai\", \"model_name\": \"\", \"version\": \"v1\"}",
       "f32a7d12842500c7">>,
     <<"{\"implementation\": \"openai\", \"model_name\": \"\", \"version\": \"v2\"}",
       "a46b1f9a38637c02">>,
     <<"{\"implementation\": \"sentence-transformers\", \"model_name\": \"Foo\", \"version\": \"v1\"}",
       "ca8c783232fc54b2">>,
     <<"{\"implementation\": \"sentence-transformers\", \"model_name\": \"Foo\", \"version\": \"v2\"}",
       "ca776791ef5b9341">>,
     <<"{\"implementation\": \"openai\", \"model_name\": \"Foo\", \"version\": \"v1\"}",
       "fb589f35cac50759">>,
     <<"{\"implementation\": \"openai\", \"model_name\": \"Foo\", \"version\": \"v2\"}",
       "1173049e520093ed">>
    }

\* hashlib.sha256(payload.encode("utf-8")).hexdigest()[:16]
sha256_hex16(payload) ==
    Hex((CHOOSE e \in Sha256Hex16Table : e[1] = payload)[2])

\* a fingerprint of the model name alone
config_id_of_model_name(cfg) ==
    sha256_hex16(json_dumps([model_name |-> cfg.model_name,
                             implementation |-> "sentence-transformers",
                             version |-> "v1"]))

config_id(cfg) == sha256_hex16(json_dumps(cfg))

-----------------------------------------------------------------------------
(* The vector store, as the chromadb client shows it.  Every call fails    *)
(* with a transport error while the store is down.                         *)

Ok == "ok"
NotFoundError == "NotFoundError"
TransportError == "TransportError"

\* How a Collection handle taken earlier finds its collection: chromadb
\* releases address it by id or by name and the repository pins no release,
\* so a handle that outlived its collection behaves either way.
HandleResolution == {"by_id", "by_name"}

\* client.get_collection(name=...)
get_collection(up, c) ==
    IF ~up THEN [err |-> TransportError]
    ELSE IF c = None THEN [err |-> NotFoundError]
    ELSE [err |-> Ok, collection |-> [id |-> c.id, metadata |-> c.metadata]]

\* dict.get(key) on `collection.metadata or {}`
metadata_get(metadata, key) ==
    IF key \in DOMAIN metadata THEN metadata[key] ELSE None

\* the collection a handle reaches, or None
resolve(handle, c, resolution) ==
    IF c = None THEN None
    ELSE IF c.id = handle.id \/ resolution = "by_name" THEN c
    ELSE None

\* collection.query(query_texts=[q], n_results=k, include=[...]): the store
\* answers with the k nearest records, fewer when it holds fewer.
collection_query(handle, up, c, k, resolution) ==
    IF ~up THEN [err |-> TransportError]
    ELSE IF resolve(handle, c, resolution) = None THEN [err |-> NotFoundError]
    ELSE [err |-> Ok, hits |-> Min(k, Cardinality(c.docs))]

\* client.heartbeat()
heartbeat(up) == IF up THEN Ok ELSE TransportError

-----------------------------------------------------------------------------
(* app/rag_service.py *)

\* RAGService.__init__
RAGService(s) ==
    [embedding_config |->
         EmbeddingConfig(normalise_model_name(s.embedding_model_name),
                         s.embedding_config_version),
     collection |-> None,
     collection_embedding_config_id |-> None,
     embedding_drift_detected |-> FALSE,
     chroma_connected |-> FALSE]

\* a refresh that keeps the cached collection when the collection is gone
refresh_not_found_keeps_collection(self) ==
    [self |-> [self EXCEPT !.collection_embedding_config_id = None,
                           !.embedding_drift_detected = FALSE,
                           !.chroma_connected = TRUE],
     raised |-> Ok]

\* refresh_state lines 58-67: the collection does not exist
refresh_not_found(self) ==
    [self |-> [self EXCEPT !.collection = None,
                           !.collection_embedding_config_id = None,
                           !.embedding_drift_detected = FALSE,
                           !.chroma_connected = TRUE],
     raised |-> Ok]

\* a refresh that takes missing metadata for alignment
refresh_unstamped_trusting(self, collection) ==
    [self |-> [self EXCEPT !.collection = collection,
                           !.collection_embedding_config_id = None,
                           !.embedding_drift_detected = FALSE,
                           !.chroma_connected = TRUE],
     raised |-> Ok]

\* refresh_state lines 72-82 and 105: the metadata holds no embedding_config_id
refresh_unstamped(self, collection) ==
    [self |-> [self EXCEPT !.collection = collection,
                           !.collection_embedding_config_id = None,
                           !.embedding_drift_detected = TRUE,
                           !.chroma_connected = TRUE],
     raised |-> Ok]

\* a refresh that compares the stamp with the fingerprint of the model name
\* alone, blind to the version
refresh_stamped_by_model_name(self, collection, stored_config_id) ==
    [self |-> [self EXCEPT
                   !.collection = collection,
                   !.collection_embedding_config_id = stored_config_id,
                   !.embedding_drift_detected =
                       (stored_config_id
                            # config_id_of_model_name(self.embedding_config)),
                   !.chroma_connected = TRUE],
     raised |-> Ok]

\* refresh_state lines 83-105: the metadata holds stored_config_id
refresh_stamped(self, collection, stored_config_id) ==
    [self |-> [self EXCEPT
                   !.collection = collection,
                   !.collection_embedding_config_id = stored_config_id,
                   !.embedding_drift_detected =
                       (stored_config_id # config_id(self.embedding_config)),
                   !.chroma_connected = TRUE],
     raised |-> Ok]

\* a refresh that marks the store disconnected but keeps the other fields
refresh_failed_keeps_state(self) ==
    [self |-> [self EXCEPT !.chroma_connected = FALSE],
     raised |-> "ChromaConnectionError"]

\* refresh_state lines 107-113: anything but NotFoundError was raised
refresh_failed(self) ==
    [self |-> [self EXCEPT !.collection = None,
                           !.collection_embedding_config_id = None,
                           !.embedding_drift_detected = FALSE,
                           !.chroma_connected = FALSE],
     raised |-> "ChromaConnectionError"]

\* RAGService.refresh_state: the instance afterwards and what it raised.
refresh_state(self, up, c) ==
    LET got == get_collection(up, c) IN
    IF got.err = NotFoundError THEN refresh_not_found(self)
    ELSE IF got.err # Ok THEN refresh_failed(self)
    ELSE
        LET stored_config_id ==
                metadata_get(got.collection.metadata, "embedding_config_id")
        IN  IF stored_config_id = None
            THEN refresh_unstamped(self, got.collection)
            ELSE refresh_stamped(self, got.collection, stored_config_id)

\* readiness that looks at the connection alone
is_ready_ignoring_drift(self) == self.chroma_connected

\* RAGService.is_ready
is_ready(self) == self.chroma_connected /\ ~self.embedding_drift_detected

\* RAGService.get_embedding_status
get_embedding_status(self, s) ==
    [current_embedding_model |-> normalise_model_name(s.embedding_model_name),
     current_embedding_config_id |-> config_id(self.embedding_config),
     collection_embedding_config_id |-> self.collection_embedding_config_id,
     drift_detected |-> self.embedding_drift_detected]

\* a liveness probe that reports the store healthy without asking it
check_chroma_health_unprobed(up) == TRUE

\* RAGService.check_chroma_health
check_chroma_health(up) == heartbeat(up) = Ok

\* RAGService.query: what it raised (Ok: it returned), the number of hits of
\* the returned lists, and the store calls it made (the n_results of each).
\* The store call is not guarded, so its failure leaves query as the
\* client's own exception.
query(self, up, c, k, resolution) ==
    IF ~is_ready(self) THEN
        [raised |-> "EmbeddingConfigMismatchError", hits |-> 0, calls |-> <<>>]
    ELSE IF self.collection = None THEN
        [raised |-> Ok, hits |-> 0, calls |-> <<>>]
    ELSE
        LET results == collection_query(self.collection, up, c, k, resolution)
        IN  IF results.err # Ok
            THEN [raised |-> results.err, hits |-> 0, calls |-> <<k>>]
            ELSE [raised |-> Ok, hits |-> results.hits, calls |-> <<k>>]

-----------------------------------------------------------------------------
(* common/ingest.py and init_service/init_embeddings.py *)

\* batch_size of rebuild_collection when the caller passes none, as main does
DEFAULT_BATCH_SIZE == 32

\* load_documents_from_path: the ids of the n documents under the docs root
load_documents(n) == 1..n

\* the metadata rebuild_collection stamps on the collection it creates
rebuild_metadata(embedding_config_id, embedding_model_name) ==
    [embedding_config_id |-> embedding_config_id,
     embedding_model_name |-> embedding_model_name]

\* an init process that stamps the raw model name of its settings
main_embedding_model_raw(s) ==
    IF s.embedding_model_name = None THEN DEFAULT ELSE s.embedding_model_name

\* main lines 33-37: the configuration the init process stamps
main_embedding_model(s) == normalise_model_name(s.embedding_model_name)

main_embedding_config(s) ==
    EmbeddingConfig(main_embedding_model(s), s.embedding_config_version)

\* a slice that stops one document short: docs[start : start + batch_size - 1]
batch_of_short(docs, start, batch_size) ==
    {d \in docs : start < d /\ d < start + batch_size}

\* docs[start : start + batch_size]
batch_of(docs, start, batch_size) ==
    {d \in docs : start < d /\ d <= start + batch_size}

\* str.lower() on the characters the flag is written with
lower(s) ==
    Str([i \in 1..Len(s.str) |->
            CASE s.str[i] = "Y" -> "y"
              [] s.str[i] = "N" -> "n"
              [] s.str[i] = "O" -> "o"
              [] OTHER -> s.str[i]])

\* REBUILD_ON_EMBEDDING_MISMATCH as the environment can set it
RebuildOnMismatchSettings == {None, Str(<<" ", "Y">>), Str(<<"N", "o">>)}

\* _bool_env(name, default) for the raw value os.getenv gives
bool_env(raw, default) ==
    IF raw = None THEN default
    ELSE lower(strip(raw)) \in {Str(<<"1">>), Str(<<"t", "r", "u", "e">>),
                                Str(<<"y", "e", "s">>), Str(<<"y">>)}

IdleInit ==
    [pc |-> "idle", settings |-> None, rebuild_on_mismatch |-> FALSE,
     ndocs |-> 0, start |-> 0, collection |-> None, exit |-> "none"]

\* sys.exit(main()): a run that returned 0 is remembered with its settings
\* and the collection it built
Exited(p, code) ==
    IF code = "0"
    THEN [IdleInit EXCEPT !.pc = "exited", !.exit = code,
                          !.settings = p.settings, !.collection = p.collection]
    ELSE [IdleInit EXCEPT !.pc = "exited", !.exit = code]

\* main lines 28-94: the init container starts with its Settings() and
\* REBUILD_ON_EMBEDDING_MISMATCH, looks at the existing collection and decides
MainGetCollection(s, rebuild_on_mismatch) ==
    /\ ip.pc \in {"idle", "exited"}
    /\ nextId <= MaxCollections
    /\ LET p == [IdleInit EXCEPT !.settings = s,
                                 !.rebuild_on_mismatch = rebuild_on_mismatch]
           got == get_collection(storeUp, coll)
       IN  ip' = IF got.err = NotFoundError THEN [p EXCEPT !.pc = "list"]
                 ELSE IF got.err # Ok THEN Exited(p, "1")
                 ELSE IF metadata_get(got.collection.metadata, "embedding_config_id")
                             = config_id(main_embedding_config(s))
                      THEN Exited(p, "0")
                 ELSE IF ~rebuild_on_mismatch THEN Exited(p, "1")
                 ELSE [p EXCEPT !.pc = "list"]
    /\ UNCHANGED <<settings, storeUp, coll, nextId, svc, lastOp, resp, aux>>

\* main lines 97-98 find n documents; then _delete_collection_if_exists:
\* client.list_collections() and the search for the name. The flag
\* rebuild_on_mismatch, read for the last time at main line 79, is dropped.
DeleteListCollections(n) ==
    /\ ip.pc = "list"
    /\ ip' = IF ~storeUp THEN Exited(ip, "1")
             ELSE IF coll # None
                  THEN [ip EXCEPT !.pc = "delete", !.ndocs = n,
                                  !.rebuild_on_mismatch = FALSE]
             ELSE [ip EXCEPT !.pc = "create", !.ndocs = n,
                             !.rebuild_on_mismatch = FALSE]
    /\ UNCHANGED <<settings, storeUp, coll, nextId, svc, lastOp, resp, aux>>

\* _delete_collection_if_exists: client.delete_collection(name=name)
DeleteCollection ==
    /\ ip.pc = "delete"
    /\ IF storeUp /\ coll # None
       THEN /\ coll' = None
            /\ ip' = [ip EXCEPT !.pc = "create"]
       ELSE /\ coll' = coll
            /\ ip' = Exited(ip, "1")
    /\ UNCHANGED <<settings, storeUp, nextId, svc, lastOp, resp, aux>>

\* rebuild_collection lines 106-113: client.create_collection(...); an empty
\* document list leaves the loop of lines 116-128 without a call
CreateCollection ==
    /\ ip.pc = "create"
    /\ nextId <= MaxCollections
    /\ IF storeUp /\ coll = None
       THEN /\ coll' = [id |-> nextId,
                         metadata |-> rebuild_metadata(
                             config_id(main_embedding_config(ip.settings)),
                             main_embedding_model(ip.settings)),
                         docs |-> {}, want |-> load_documents(ip.ndocs)]
            /\ nextId' = nextId + 1
            /\ ip' = IF ip.ndocs = 0
                     THEN Exited([ip EXCEPT !.collection = [id |-> nextId]], "0")
                     ELSE [ip EXCEPT !.pc = "add", !.start = 0,
                                     !.collection = [id |-> nextId]]
       ELSE /\ UNCHANGED <<coll, nextId>>
            /\ ip' = Exited(ip, "1")
    /\ UNCHANGED <<settings, storeUp, svc, lastOp, resp, aux>>

\* rebuild_collection lines 116-128: one collection.add(...) of the loop
AddBatch(resolution) ==
    /\ ip.pc = "add"
    /\ LET batch == batch_of(load_documents(ip.ndocs), ip.start, DEFAULT_BATCH_SIZE)
           target == resolve(ip.collection, coll, resolution)
       IN  IF storeUp /\ target # None
           THEN /\ coll' = [coll EXCEPT !.docs = @ \cup batch]
                /\ ip' = IF ip.start + DEFAULT_BATCH_SIZE >= ip.ndocs
                         THEN Exited(ip, "0")
                         ELSE [ip EXCEPT !.start = @ + DEFAULT_BATCH_SIZE]
           ELSE /\ coll' = coll
                /\ ip' = Exited(ip, "1")
    /\ UNCHANGED <<settings, storeUp, nextId, svc, lastOp, resp, aux>>

InitProcess ==
    \/ \E s \in Settings, raw \in RebuildOnMismatchSettings :
            MainGetCollection(s, bool_env(raw, TRUE))
    \/ \E n \in 0..MaxDocs : DeleteListCollections(n)
    \/ DeleteCollection
    \/ CreateCollection
    \/ \E resolution \in HandleResolution : AddBatch(resolution)

-----------------------------------------------------------------------------
(* rebuild_collection called on its own (an administrative maintenance flow),
   with a batch size of the caller's choice; the run is held in ip2 *)

\* batch sizes a caller passes (batch_size >= 1)
MaxBatch == 2

\* documents a caller of rebuild_collection supplies
MaxBatchDocs == 3

BatchSizes == 1..MaxBatch

\* the configurations whose fingerprint and label a caller passes: a padded
\* model name under "v1" and the unset model name under "v2"
RebuildSettings ==
    {s \in Settings : s.embedding_config_version = "v2"
                        \/ s.embedding_model_name = Str(<<" ", "m">>)}

RunningRebuild == {"delete", "create", "add"}

IdleRebuild ==
    [pc |-> "idle", settings |-> None, ndocs |-> 0, batch_size |-> 0,
     start |-> 0, collection |-> None, deleted |-> None, adds |-> <<>>,
     result |-> "none"]

\* how a call of rebuild_collection ends: it returns the collection or raises
Returned(p) == [p EXCEPT !.pc = "done", !.start = 0, !.result = "returned"]

Raised(p) == [IdleRebuild EXCEPT !.pc = "done", !.result = "raised"]

\* a call that waits until no init process is rebuilding the collection
RebuildCollectionLocked(s, n, batch_size) ==
    /\ ip2.pc \in {"idle", "done"}
    /\ ip.pc \notin {"list", "delete", "create", "add"}
    /\ nextId <= MaxCollections
    /\ LET p == [IdleRebuild EXCEPT !.settings = s, !.ndocs = n,
                                    !.batch_size = batch_size]
       IN  ip2' = IF ~storeUp THEN Raised(p)
                  ELSE IF coll # None THEN [p EXCEPT !.pc = "delete"]
                  ELSE [p EXCEPT !.pc = "create"]
    /\ UNCHANGED <<settings, storeUp, coll, nextId, svc, lastOp, ip, resp,
                   rt, seen, calc>>

\* rebuild_collection lines 93-97 with n documents, the fingerprint and label
\* of settings s and a batch size; then _delete_collection_if_exists:
\* client.list_collections() and the search for the name
RebuildCollection(s, n, batch_size) ==
    /\ ip2.pc \in {"idle", "done"}
    /\ nextId <= MaxCollections
    /\ LET p == [IdleRebuild EXCEPT !.settings = s, !.ndocs = n,
                                    !.batch_size = batch_size]
       IN  ip2' = IF ~storeUp THEN Raised(p)
                  ELSE IF coll # None THEN [p EXCEPT !.pc = "delete"]
                  ELSE [p EXCEPT !.pc = "create"]
    /\ UNCHANGED <<settings, storeUp, coll, nextId, svc, lastOp, ip, resp,
                   rt, seen, calc>>

\* _delete_collection_if_exists: client.delete_collection(name=name)
RebuildDeleteCollection ==
    /\ ip2.pc = "delete"
    /\ IF storeUp /\ coll # None
       THEN /\ coll' = None
            /\ ip2' = [ip2 EXCEPT !.pc = "create", !.deleted = [id |-> coll.id]]
       ELSE /\ coll' = coll
            /\ ip2' = Raised(ip2)
    /\ UNCHANGED <<settings, storeUp, nextId, svc, lastOp, ip, resp,
                   rt, seen, calc>>

\* rebuild_collection lines 106-113: client.create_collection(...)
RebuildCreateCollection ==
    /\ ip2.pc = "create"
    /\ nextId <= MaxCollections
    /\ IF storeUp /\ coll = None
       THEN /\ coll' = [id |-> nextId,
                         metadata |-> rebuild_metadata(
                             config_id(main_embedding_config(ip2.settings)),
                             main_embedding_model(ip2.settings)),
                         docs |-> {}, want |-> load_documents(ip2.ndocs)]
            /\ nextId' = nextId + 1
            /\ ip2' = IF ip2.ndocs = 0
                      THEN Returned([ip2 EXCEPT !.collection = [id |-> nextId]])
                      ELSE [ip2 EXCEPT !.pc = "add", !.start = 0,
                                       !.collection = [id |-> nextId]]
       ELSE /\ UNCHANGED <<coll, nextId>>
            /\ ip2' = Raised(ip2)
    /\ UNCHANGED <<settings, storeUp, svc, lastOp, ip, resp, rt, seen, calc>>

\* a loop that sends every remaining document in one collection.add
RebuildAddWhole(resolution) ==
    /\ ip2.pc = "add"
    /\ LET batch == batch_of(load_documents(ip2.ndocs), ip2.start, ip2.ndocs)
           target == resolve(ip2.collection, coll, resolution)
       IN  IF storeUp /\ target # None
           THEN /\ coll' = [coll EXCEPT !.docs = @ \cup batch]
                /\ ip2' = Returned([ip2 EXCEPT !.adds = Append(@, batch)])
           ELSE /\ coll' = coll
                /\ ip2' = Raised(ip2)
    /\ UNCHANGED <<settings, storeUp, nextId, svc, lastOp, ip, resp,
                   rt, seen, calc>>

\* rebuild_collection lines 116-128: one collection.add(...) of the loop
\* for start in range(0, len(docs), batch_size); adds lists the batches sent
RebuildAdd(resolution) ==
    /\ ip2.pc = "add"
    /\ LET batch == batch_of(load_documents(ip2.ndocs), ip2.start, ip2.batch_size)
           target == resolve(ip2.collection, coll, resolution)
           sent == [ip2 EXCEPT !.adds = Append(@, batch)]
       IN  IF storeUp /\ target # None
           THEN /\ coll' = [coll EXCEPT !.docs = @ \cup batch]
                /\ ip2' = IF ip2.start + ip2.batch_size >= ip2.ndocs
                          THEN Returned(sent)
                          ELSE [sent EXCEPT !.start = @ + ip2.batch_size]
           ELSE /\ coll' = coll
                /\ ip2' = Raised(ip2)
    /\ UNCHANGED <<settings, storeUp, nextId, svc, lastOp, ip, resp,
                   rt, seen, calc>>

Rebuild ==
    \/ \E s \in RebuildSettings, n \in 0..MaxBatchDocs,
            batch_size \in BatchSizes :
            RebuildCollection(s, n, batch_size)
    \/ RebuildDeleteCollection
    \/ RebuildCreateCollection
    \/ \E resolution \in HandleResolution : RebuildAdd(resolution)

-----------------------------------------------------------------------------
(* The environment of the two processes *)

StoreFail ==
    /\ storeUp
    /\ storeUp' = FALSE
    /\ UNCHANGED <<settings, coll, nextId, svc, lastOp, ip, resp, aux>>

StoreRecover ==
    /\ ~storeUp
    /\ storeUp' = TRUE
    /\ UNCHANGED <<settings, coll, nextId, svc, lastOp, ip, resp, aux>>

\* A collection of the name made by other tooling, with no embedding_config_id
\* in its metadata (the case refresh_state lines 72-82 is written for).
ForeignCreate(n) ==
    /\ storeUp
    /\ coll = None
    /\ nextId <= MaxCollections
    /\ coll' = [id |-> nextId, metadata |-> <<>>, docs |-> load_documents(n),
                want |-> load_documents(n)]
    /\ nextId' = nextId + 1
    /\ UNCHANGED <<settings, storeUp, svc, lastOp, ip, resp, aux>>

Environment ==
    \/ StoreFail
    \/ StoreRecover
    \/ \E n \in 0..MaxDocs : ForeignCreate(n)

-----------------------------------------------------------------------------
(* One long-lived RAGService instance and its callers *)

Ks == 1..MaxK

NoOp == [op |-> "none", raised |-> Ok, hits |-> 0, calls |-> <<>>]

\* the service process starts with settings s: RAGService(settings)
Construct(s) ==
    /\ settings' = s
    /\ svc' = RAGService(s)
    /\ lastOp' = [NoOp EXCEPT !.op = "construct"]
    /\ UNCHANGED <<storeUp, coll, nextId, ip, resp, aux>>

\* svc.refresh_state()
RefreshState ==
    /\ LET r == refresh_state(svc, storeUp, coll) IN
       /\ svc' = r.self
       /\ lastOp' = [NoOp EXCEPT !.op = "refresh_state", !.raised = r.raised]
    /\ UNCHANGED <<settings, storeUp, coll, nextId, ip, resp, aux>>

\* a query that, like refresh_state, resets the cached state when its store
\* call fails
QueryResettingOnFailure(k, resolution) ==
    /\ LET r == query(svc, storeUp, coll, k, resolution) IN
       /\ lastOp' = [op |-> "query", raised |-> r.raised, hits |-> r.hits,
                     calls |-> r.calls]
       /\ svc' = IF r.raised = TransportError THEN refresh_failed(svc).self
                 ELSE svc
    /\ UNCHANGED <<settings, storeUp, coll, nextId, ip, resp, aux>>

\* svc.query(question, k)
Query(k, resolution) ==
    /\ LET r == query(svc, storeUp, coll, k, resolution) IN
       lastOp' = [op |-> "query", raised |-> r.raised, hits |-> r.hits,
                  calls |-> r.calls]
    /\ UNCHANGED <<settings, storeUp, coll, nextId, svc, ip, resp, aux>>

Service ==
    \/ \E s \in Settings : Construct(s)
    \/ RefreshState
    \/ \E k \in Ks, resolution \in HandleResolution : Query(k, resolution)

-----------------------------------------------------------------------------
(* app/main.py: the FastAPI application *)

\* the status lines a caller sees: a handler that returns, an exception no
\* handler catches, and the HTTPException of query_docs
HTTP_200_OK == "200 OK"
HTTP_500_INTERNAL_SERVER_ERROR == "500 Internal Server Error"
HTTP_503_SERVICE_UNAVAILABLE == "503 Service Unavailable"

ReindexDetail == "Embedding configuration mismatch detected. Please trigger a reindex via the initialization service before querying."
UnreachableDetail == "ChromaDB is not reachable. Please try again later."

Booting == [endpoint |-> "none", status_code |-> "", detail |-> "", body |-> None]

Response(endpoint, status_code, detail, body) ==
    [endpoint |-> endpoint, status_code |-> status_code, detail |-> detail,
     body |-> body]

\* get_rag_service: every request is handed a RAGService built for it
get_rag_service(s) == RAGService(s)

\* startup_event: refreshes an instance of its own and drops it
StartupEvent ==
    /\ resp.endpoint = "none"
    /\ LET rag == RAGService(settings)
           r == refresh_state(rag, storeUp, coll)
       IN  resp' = Response("startup", "",
                            IF r.raised = "ChromaConnectionError"
                            THEN "ChromaDB is not reachable at startup."
                            ELSE "", None)
    /\ UNCHANGED <<settings, storeUp, coll, nextId, svc, lastOp, ip, aux>>

\* GET /health; the store may fail or recover between the two calls
Health(upAtProbe) ==
    /\ resp.endpoint # "none"
    /\ LET rag == refresh_state(get_rag_service(settings), storeUp, coll).self
           chroma_ok == rag.chroma_connected /\ check_chroma_health(upAtProbe)
           probed == rag.chroma_connected
       IN  /\ upAtProbe \in (IF probed THEN BOOLEAN ELSE {storeUp})
           /\ storeUp' = upAtProbe
           /\ resp' = Response("health", HTTP_200_OK, "",
                  [status |-> IF chroma_ok /\ ~rag.embedding_drift_detected
                              THEN "ok" ELSE "degraded",
                   chroma_connected |-> chroma_ok,
                   embedding_drift_detected |-> rag.embedding_drift_detected,
                   details |-> get_embedding_status(rag, settings)])
    /\ UNCHANGED <<settings, coll, nextId, svc, lastOp, ip, aux>>

\* GET /chroma-health
ChromaHealth ==
    /\ resp.endpoint # "none"
    /\ resp' = Response("chroma-health", HTTP_200_OK, "",
                        [chroma_healthy |-> check_chroma_health(storeUp)])
    /\ UNCHANGED <<settings, storeUp, coll, nextId, svc, lastOp, ip, aux>>

\* GET /admin/embedding-status: refresh_state is called unguarded
EmbeddingStatusEndpoint ==
    /\ resp.endpoint # "none"
    /\ LET r == refresh_state(get_rag_service(settings), storeUp, coll) IN
       resp' = IF r.raised # Ok
               THEN Response("embedding-status", HTTP_500_INTERNAL_SERVER_ERROR,
                             r.raised, None)
               ELSE Response("embedding-status", HTTP_200_OK, "",
                             get_embedding_status(r.self, settings))
    /\ UNCHANGED <<settings, storeUp, coll, nextId, svc, lastOp, ip, aux>>

\* query_docs lines 96-110: what the caller of POST /query gets for an
\* outcome r of rag.query
query_docs(r) ==
    IF r.raised = "EmbeddingConfigMismatchError"
    THEN Response("query", HTTP_503_SERVICE_UNAVAILABLE, ReindexDetail, None)
    ELSE IF r.raised = "ChromaConnectionError"
    THEN Response("query", HTTP_503_SERVICE_UNAVAILABLE, UnreachableDetail, None)
    ELSE IF r.raised # Ok
    THEN Response("query", HTTP_500_INTERNAL_SERVER_ERROR, r.raised, None)
    ELSE Response("query", HTTP_200_OK, "", [results |-> r.hits])

\* a POST /query that creates the collection when the store has none
QueryDocsCreating(k, resolution) ==
    /\ resp.endpoint # "none"
    /\ resp' = query_docs(query(get_rag_service(settings), storeUp, coll, k,
                                resolution))
    /\ IF storeUp /\ coll = None /\ nextId <= MaxCollections
       THEN /\ coll' = [id |-> nextId, metadata |-> <<>>, docs |-> {},
                         want |-> {}]
            /\ nextId' = nextId + 1
       ELSE UNCHANGED <<coll, nextId>>
    /\ UNCHANGED <<settings, storeUp, svc, lastOp, ip, aux>>

\* POST /query
QueryDocs(k, resolution) ==
    /\ resp.endpoint # "none"
    /\ resp' = query_docs(query(get_rag_service(settings), storeUp, coll, k,
                                resolution))
    /\ UNCHANGED <<settings, storeUp, coll, nextId, svc, lastOp, ip, aux>>

Http ==
    \/ StartupEvent
    \/ \E upAtProbe \in BOOLEAN : Health(upAtProbe)
    \/ ChromaHealth
    \/ EmbeddingStatusEndpoint
    \/ \E k \in Ks, resolution \in HandleResolution : QueryDocs(k, resolution)

-----------------------------------------------------------------------------
(* Specifications *)

\* no thread is inside refresh_state
IdleRefresh == [pc |-> "idle"]

\* no concurrent read has been made
NothingSeen == [op |-> "none"]

\* no pure function has been evaluated
NoCalc == [fn |-> "none"]

Init ==
    /\ settings \in Settings
    /\ storeUp \in BOOLEAN
    /\ coll = None
    /\ nextId = 1
    /\ svc = RAGService(settings)
    /\ lastOp = [NoOp EXCEPT !.op = "construct"]
    /\ ip = IdleInit
    /\ resp = Booting
    /\ ip2 = IdleRebuild
    /\ rt = IdleRefresh
    /\ seen = NothingSeen
    /\ calc = NoCalc

\* a long-lived instance, the init process and the store
Next == Service \/ InitProcess \/ Environment

Spec == Init /\ [][Next]_vars

\* the FastAPI application, the init process and the store
NextHttp == Http \/ InitProcess \/ Environment

SpecHttp == Init /\ [][NextHttp]_vars

\* one administrative rebuild run at a time next to the store's environment
NextRebuild == Rebuild \/ Environment

SpecRebuild == Init /\ [][NextRebuild]_vars

\* an administrative rebuild run concurrent with the init process, the store
\* staying reachable
InitReachable == Init /\ storeUp

NextRebuild2 == Rebuild \/ InitProcess

SpecRebuild2 == InitReachable /\ [][NextRebuild2]_vars

-----------------------------------------------------------------------------
(* One RAGService instance shared by threads: refresh_state assigns its four
   attributes one statement at a time, and nothing in the class keeps another
   thread from reading between two assignments *)

\* the three state fields a reader of the instance sees
StateFields(self) ==
    [connected |-> self.chroma_connected,
     storedFingerprint |-> self.collection_embedding_config_id,
     driftDetected |-> self.embedding_drift_detected]

\* refresh_state lines 50-56 and 69-70: the call asks the store for the
\* collection; what it will assign is decided by the answer
RefreshBegin ==
    /\ rt.pc = "idle"
    /\ LET r == refresh_state(svc, storeUp, coll) IN
       rt' = [pc |-> "collection", target |-> r.self, raised |-> r.raised,
              before |-> StateFields(svc),
              after_cycle |-> lastOp.op = "refresh_state"]
    /\ UNCHANGED <<settings, storeUp, coll, nextId, svc, lastOp, ip, resp,
                   ip2, seen, calc>>

\* the next of the four assignments, in the order every branch of
\* refresh_state makes them (lines 64-67, 79-81 and 105, 101-105, 108-111)
RefreshAssign ==
    /\ rt.pc # "idle"
    /\ svc' = CASE rt.pc = "collection" ->
                     [svc EXCEPT !.collection = rt.target.collection]
                [] rt.pc = "config_id" ->
                     [svc EXCEPT !.collection_embedding_config_id =
                                     rt.target.collection_embedding_config_id]
                [] rt.pc = "drift" ->
                     [svc EXCEPT !.embedding_drift_detected =
                                     rt.target.embedding_drift_detected]
                [] rt.pc = "connected" ->
                     [svc EXCEPT !.chroma_connected = rt.target.chroma_connected]
    /\ rt' = CASE rt.pc = "collection" -> [rt EXCEPT !.pc = "config_id"]
               [] rt.pc = "config_id" -> [rt EXCEPT !.pc = "drift"]
               [] rt.pc = "drift" -> [rt EXCEPT !.pc = "connected"]
               [] rt.pc = "connected" -> IdleRefresh
    /\ lastOp' = IF rt.pc = "connected"
                 THEN [NoOp EXCEPT !.op = "refresh_state", !.raised = rt.raised]
                 ELSE lastOp
    /\ seen' = IF rt.pc = "connected" THEN NothingSeen ELSE seen
    /\ UNCHANGED <<settings, storeUp, coll, nextId, ip, resp, ip2, calc>>

\* another thread reads the attributes (chroma_connected, is_ready,
\* get_embedding_status) between two statements of the refresh in progress
ConcurrentRead ==
    /\ rt.pc # "idle"
    /\ seen' = [op |-> "read", state |-> StateFields(svc), ready |-> is_ready(svc)]
    /\ UNCHANGED <<settings, storeUp, coll, nextId, svc, lastOp, ip, resp,
                   ip2, rt, calc>>

NextConcurrent ==
    \/ RefreshBegin
    \/ RefreshAssign
    \/ ConcurrentRead
    \/ InitProcess
    \/ Environment

SpecConcurrent == Init /\ [][NextConcurrent]_vars

-----------------------------------------------------------------------------
(* Properties *)

\* the fingerprint stamped on a collection of the store, or None
StoredStamp(c) == metadata_get(c.metadata, "embedding_config_id")

\* the fingerprint of the configuration the instance was built with
CurrentFingerprint(self) == config_id(self.embedding_config)

Refused(op) == op.raised = "EmbeddingConfigMismatchError" /\ op.calls = <<>>

\* C1: query is gated by readiness. From a state with chroma_connected false
\* or embedding_drift_detected true, query raises EmbeddingConfigMismatchError
\* and calls the store not at all; from a state that is connected, free of
\* drift and has a collection attached, it makes exactly one store call, a
\* similarity search for k results.
C1_DriftGating ==
    [][\A k \in Ks, resolution \in HandleResolution :
         Query(k, resolution) =>
             /\ (~svc.chroma_connected \/ svc.embedding_drift_detected)
                    => Refused(lastOp')
             /\ (/\ svc.chroma_connected
                 /\ ~svc.embedding_drift_detected
                 /\ svc.collection # None)
                    => lastOp'.calls = <<k>>]_vars

\* C1 witness: a query came back refused on an instance that is connected
\* and has detected drift.
C1_Witness ==
    /\ lastOp.op = "query"
    /\ Refused(lastOp)
    /\ svc.chroma_connected
    /\ svc.embedding_drift_detected

\* C2 (as claimed): with the store reachable and the collection stamped
\* with the current fingerprint, POST /query is answered with the store's
\* results and not refused.
C2_ServedWhenAligned ==
    [][\A k \in Ks, resolution \in HandleResolution :
         QueryDocs(k, resolution) =>
             ((/\ storeUp
               /\ coll # None
               /\ StoredStamp(coll) =
                      CurrentFingerprint(get_rag_service(settings)))
                 => resp'.status_code = HTTP_200_OK)]_vars

\* C3: a refresh that finds the collection with a stored fingerprint leaves
\* chroma_connected true, the stored fingerprint cached and
\* embedding_drift_detected equal to (stored # current); a query that follows
\* such a refresh with drift is refused.
C3_RefreshStamped ==
    [][/\ RefreshState =>
              ((storeUp /\ coll # None /\ StoredStamp(coll) # None) =>
                  /\ svc'.chroma_connected
                  /\ svc'.collection_embedding_config_id = StoredStamp(coll)
                  /\ svc'.embedding_drift_detected =
                         (StoredStamp(coll) # CurrentFingerprint(svc))
                  /\ lastOp'.raised = Ok)
       /\ \A k \in Ks, resolution \in HandleResolution :
              Query(k, resolution) =>
                  ((/\ lastOp.op = "refresh_state"
                    /\ svc.collection_embedding_config_id # None
                    /\ svc.embedding_drift_detected) => Refused(lastOp'))]_vars

\* C3 witness: the collection is stamped by a "v1" configuration, the
\* instance runs "v2", its refresh found drift and the query was refused.
C3_Witness ==
    /\ lastOp.op = "query"
    /\ Refused(lastOp)
    /\ svc.embedding_config.version = "v2"
    /\ svc.collection_embedding_config_id =
           config_id(EmbeddingConfig(svc.embedding_config.model_name, "v1"))
    /\ svc.chroma_connected
    /\ svc.embedding_drift_detected

\* C4: a refresh that finds the collection without embedding_config_id in
\* its metadata leaves embedding_drift_detected true, chroma_connected true
\* and no stored fingerprint, under every configuration; a query that
\* follows it is refused.
C4_RefreshUnstamped ==
    [][/\ RefreshState =>
              ((storeUp /\ coll # None /\ StoredStamp(coll) = None) =>
                  /\ svc'.embedding_drift_detected
                  /\ svc'.chroma_connected
                  /\ svc'.collection_embedding_config_id = None
                  /\ lastOp'.raised = Ok)
       /\ \A k \in Ks, resolution \in HandleResolution :
              Query(k, resolution) =>
                  ((/\ lastOp.op = "refresh_state"
                    /\ svc.chroma_connected
                    /\ svc.collection # None
                    /\ svc.collection_embedding_config_id = None)
                       => Refused(lastOp'))]_vars

\* C4 witness: a query was refused on an instance whose refresh attached a
\* collection that carries no fingerprint.
C4_Witness ==
    /\ lastOp.op = "query"
    /\ Refused(lastOp)
    /\ svc.chroma_connected
    /\ svc.collection # None
    /\ svc.collection_embedding_config_id = None
    /\ svc.embedding_drift_detected

\* C5: with the store reachable and the collection absent, refresh raises
\* nothing and leaves connected, no stored fingerprint, no drift and no
\* collection attached; a query that follows returns an empty list, raises
\* nothing and makes no store call.
C5_MissingCollection ==
    [][/\ RefreshState =>
              ((storeUp /\ coll = None) =>
                  /\ lastOp'.raised = Ok
                  /\ svc'.chroma_connected
                  /\ svc'.collection_embedding_config_id = None
                  /\ ~svc'.embedding_drift_detected
                  /\ svc'.collection = None)
       /\ \A k \in Ks, resolution \in HandleResolution :
              Query(k, resolution) =>
                  ((/\ lastOp.op = "refresh_state"
                    /\ svc.chroma_connected
                    /\ svc.collection = None)
                       => /\ lastOp'.raised = Ok
                          /\ lastOp'.hits = 0
                          /\ lastOp'.calls = <<>>)]_vars

\* C5 witness: a query returned an empty list without a store call on a
\* connected instance with no collection attached.
C5_Witness ==
    /\ lastOp.op = "query"
    /\ lastOp.raised = Ok
    /\ lastOp.hits = 0
    /\ lastOp.calls = <<>>
    /\ svc.chroma_connected
    /\ svc.collection = None

\* C6: a refresh whose store call fails for another reason than not-found
\* ends disconnected, with no stored fingerprint, no drift and no collection
\* attached, whatever the instance held before, and raises
\* ChromaConnectionError.
C6_RefreshFailure ==
    [][RefreshState =>
           (~storeUp =>
               /\ ~svc'.chroma_connected
               /\ svc'.collection_embedding_config_id = None
               /\ ~svc'.embedding_drift_detected
               /\ svc'.collection = None
               /\ lastOp'.raised = "ChromaConnectionError")]_vars

\* C6 witness: a refresh raised ChromaConnectionError and the instance is
\* disconnected while the store still holds a stamped collection.
C6_Witness ==
    /\ lastOp.op = "refresh_state"
    /\ lastOp.raised = "ChromaConnectionError"
    /\ ~svc.chroma_connected
    /\ svc.collection = None
    /\ ~storeUp
    /\ coll # None

\* the last run of the init process returned 0 and nothing has rebuilt the
\* collection since
InitSucceeded == ip.pc = "exited" /\ ip.exit = "0"

\* C7: after the init process has succeeded, a refresh of an instance whose
\* current fingerprint is the one the run stamped caches that fingerprint
\* and reports no drift; an instance built from the settings of the run has
\* that fingerprint, so its refresh reports no drift.
C7_RebuildThenRefresh ==
    [][RefreshState =>
           ((storeUp /\ InitSucceeded) =>
               /\ (CurrentFingerprint(svc)
                       = config_id(main_embedding_config(ip.settings))
                     => /\ coll # None
                        /\ svc'.collection_embedding_config_id
                               = CurrentFingerprint(svc)
                        /\ ~svc'.embedding_drift_detected)
               /\ (settings = ip.settings
                     => /\ svc'.chroma_connected
                        /\ svc'.collection_embedding_config_id
                               = CurrentFingerprint(svc)
                        /\ ~svc'.embedding_drift_detected))]_vars

\* C7 witness: the init process rebuilt the collection under a model name
\* that needs trimming, and an instance built from the same settings has
\* refreshed against it and found no drift.
C7_Witness ==
    /\ InitSucceeded
    /\ ip.collection # None
    /\ ip.settings = settings
    /\ settings.embedding_model_name = Str(<<" ", "m">>)
    /\ lastOp.op = "refresh_state"
    /\ svc.chroma_connected
    /\ svc.collection # None
    /\ svc.collection.id = ip.collection.id
    /\ svc.collection_embedding_config_id = CurrentFingerprint(svc)
    /\ ~svc.embedding_drift_detected

\* C8 (as claimed): a query made while the collection of the store carries
\* another fingerprint than the current one, or none, is refused.
C8_RefusedOnStoreMismatch ==
    [][\A k \in Ks, resolution \in HandleResolution :
         Query(k, resolution) =>
             ((coll # None /\ StoredStamp(coll) # CurrentFingerprint(svc))
                 => lastOp'.raised = "EmbeddingConfigMismatchError")]_vars

\* C9 (as claimed): query returns, raises EmbeddingConfigMismatchError or
\* raises ChromaConnectionError, and nothing else.
C9_ThreeOutcomes ==
    lastOp.op = "query" =>
        lastOp.raised \in {Ok, "EmbeddingConfigMismatchError",
                           "ChromaConnectionError"}

\* C10 (as claimed): the caller of a query made on a disconnected instance is
\* told that the store is unreachable, and is told to reindex only when the
\* instance is connected and has detected drift.
C10_DistinctRefusals ==
    [][\A k \in Ks, resolution \in HandleResolution :
         Query(k, resolution) =>
             /\ ~svc.chroma_connected
                    => query_docs(lastOp').detail = UnreachableDetail
             /\ query_docs(lastOp').detail = ReindexDetail
                    => (svc.chroma_connected /\ svc.embedding_drift_detected)]_vars

-----------------------------------------------------------------------------
(* Health and status endpoints, frame conditions, idempotence *)

\* what a refresh under settings s has to report for collection c
ExpectedDrift(s, c) ==
    c # None /\ StoredStamp(c) # CurrentFingerprint(RAGService(s))

\* C12: GET /health always answers 200 with a structured status, whatever
\* the store does; the status is "ok" exactly when the refresh succeeded,
\* the liveness probe succeeded and no drift was detected, and "degraded"
\* otherwise; a store that fails during the refresh is reported as degraded
\* with chroma_connected false.
C12_HealthNeverFails ==
    [][\A upAtProbe \in BOOLEAN :
         Health(upAtProbe) =>
             /\ resp'.status_code = HTTP_200_OK
             /\ resp'.body.status \in {"ok", "degraded"}
             /\ resp'.body.status = "ok"
                    <=> (storeUp /\ upAtProbe /\ ~ExpectedDrift(settings, coll))
             /\ resp'.body.chroma_connected = (storeUp /\ upAtProbe)
             /\ ~storeUp => /\ resp'.body.status = "degraded"
                            /\ ~resp'.body.chroma_connected]_vars

\* C12 witness: the store is down and /health has answered 200, degraded,
\* chroma_connected false.
C12_Witness ==
    /\ resp.endpoint = "health"
    /\ resp.status_code = HTTP_200_OK
    /\ resp.body.status = "degraded"
    /\ ~resp.body.chroma_connected
    /\ ~storeUp

\* C13 (as claimed): GET /admin/embedding-status always answers with a
\* structured status; no failure of its refresh escapes the endpoint.
C13_StatusNeverFails ==
    resp.endpoint = "embedding-status" => resp.status_code = HTTP_200_OK

\* C14: query writes none of the cached fields, whatever it returns or
\* raises; the fields of the instance change only in refresh_state (or when
\* the process builds a new instance).
C14_QueryWritesNoState ==
    [][/\ \A k \in Ks, resolution \in HandleResolution :
              Query(k, resolution) => svc' = svc
       /\ svc' # svc => (RefreshState \/ \E s \in Settings : Construct(s))]_vars

\* C14 witness: the store call of a query failed on a ready instance and
\* the instance is still connected with its collection attached.
C14_Witness ==
    /\ lastOp.op = "query"
    /\ lastOp.raised = TransportError
    /\ svc.chroma_connected
    /\ ~svc.embedding_drift_detected
    /\ svc.collection # None

\* C15: the handlers of the application (startup, /health, /chroma-health,
\* /admin/embedding-status, /query) leave the collection, its metadata and
\* records and the init process as they are; the collection changes only in
\* steps of the rebuild pipeline or of tooling outside the application.
C15_QueryPathReadsOnly ==
    [][/\ (\/ StartupEvent
           \/ \E upAtProbe \in BOOLEAN : Health(upAtProbe)
           \/ ChromaHealth
           \/ EmbeddingStatusEndpoint
           \/ \E k \in Ks, resolution \in HandleResolution :
                  QueryDocs(k, resolution))
              => (coll' = coll /\ nextId' = nextId /\ ip' = ip)
       /\ coll' # coll =>
              \/ DeleteCollection
              \/ CreateCollection
              \/ \E resolution \in HandleResolution : AddBatch(resolution)
              \/ \E n \in 0..MaxDocs : ForeignCreate(n)]_vars

\* C15 witness: /query was handled while the store had no collection, and
\* the store still has none.
C15_Witness ==
    /\ resp.endpoint = "query"
    /\ storeUp
    /\ coll = None
    /\ nextId = 1

\* C19: the state a refresh leaves is the state a refresh of a newly built
\* instance leaves against the same store, so it does not depend on the
\* cached state before; a second refresh against the unchanged store leaves
\* it as it is.
C19_RefreshIdempotent ==
    [][RefreshState =>
           /\ svc' = refresh_state(RAGService(settings), storeUp, coll).self
           /\ lastOp'.raised
                  = refresh_state(RAGService(settings), storeUp, coll).raised
           /\ refresh_state(svc', storeUp, coll).self = svc']_vars

\* C19 witness: a refresh succeeded against a stamped collection and left
\* the instance connected with the collection attached.
C19_Witness ==
    /\ lastOp.op = "refresh_state"
    /\ lastOp.raised = Ok
    /\ storeUp
    /\ coll # None
    /\ svc.chroma_connected
    /\ svc.collection # None
    /\ svc.collection.id = coll.id
    /\ svc.collection_embedding_config_id # None

-----------------------------------------------------------------------------
(* Readers concurrent with a refresh *)

\* C11: a thread that reads the state fields while another thread of the same
\* instance is inside refresh_state, a refresh cycle having completed before,
\* sees the values the previous cycle left or the values this cycle leaves,
\* never a mixture of the two.
C11_AtomicRefresh ==
    (seen.op = "read" /\ rt.pc # "idle" /\ rt.after_cycle)
        => seen.state \in {rt.before, StateFields(rt.target)}

-----------------------------------------------------------------------------
(* Rebuilding the collection *)

\* C16: when rebuild_collection returns (batch size >= 1), the collection of
\* the name is the one this call created, not the one it found and deleted;
\* it carries the given fingerprint and model label, and its records are
\* exactly the supplied documents (none at all when no document was supplied).
C16_DropThenCreate ==
    [][(ip2.pc \in RunningRebuild /\ ip2'.pc = "done" /\ ip2'.result = "returned")
        => /\ coll' # None
           /\ coll'.id = ip2'.collection.id
           /\ (ip2'.deleted # None => coll'.id # ip2'.deleted.id)
           /\ coll'.metadata.embedding_config_id
                = config_id(main_embedding_config(ip2'.settings))
           /\ coll'.metadata.embedding_model_name
                = main_embedding_model(ip2'.settings)
           /\ coll'.docs = load_documents(ip2'.ndocs)
           /\ (ip2'.ndocs = 0 => coll'.docs = {})]_vars

\* a call that found a collection, deleted it and loaded its documents in
\* more than one batch has returned
C16_Witness ==
    /\ ip2.pc = "done"
    /\ ip2.result = "returned"
    /\ ip2.deleted # None
    /\ ip2.batch_size < ip2.ndocs
    /\ coll # None
    /\ coll.id = ip2.collection.id
    /\ coll.docs = load_documents(ip2.ndocs)

\* C17: a collection.add that fails makes the init process exit non-zero, and
\* an init process that exits 0, after such a failed run included, leaves the
\* collection with every document its rebuild had to load.
C17_RerunCompletes ==
    [][/\ (ip.pc = "add" /\ ~storeUp /\ ip' # ip)
            => (ip'.pc = "exited" /\ ip'.exit = "1")
       /\ (ip'.pc = "exited" /\ ip'.exit = "0")
            => (coll' # None /\ coll'.docs = coll'.want)]_vars

RunningInit == {"list", "delete", "create", "add"}

\* C18: nothing keeps two rebuilds of the same collection apart: while the
\* init process is between its list, delete, create and add calls a call of
\* rebuild_collection can start, while such a call is between its steps the
\* init process can start, and with both under way each can take its next
\* step.
C18_NotMutuallyExcluded ==
    /\ (ip.pc \in RunningInit /\ ip2.pc \in {"idle", "done"}
            /\ nextId <= MaxCollections)
        => ENABLED (\E s \in RebuildSettings, n \in 0..MaxBatchDocs,
                           b \in BatchSizes :
                        RebuildCollection(s, n, b))
    /\ (ip2.pc \in RunningRebuild /\ ip.pc \in {"idle", "exited"}
            /\ nextId <= MaxCollections)
        => ENABLED (\E s \in Settings, r \in BOOLEAN : MainGetCollection(s, r))
    /\ (ip.pc \in RunningInit /\ ip2.pc \in RunningRebuild
            /\ nextId <= MaxCollections)
        => /\ ENABLED (\/ \E n \in 0..MaxDocs : DeleteListCollections(n)
                       \/ DeleteCollection
                       \/ CreateCollection
                       \/ \E resolution \in HandleResolution : AddBatch(resolution))
           /\ ENABLED (\/ RebuildDeleteCollection
                       \/ RebuildCreateCollection
                       \/ \E resolution \in HandleResolution : RebuildAdd(resolution))

\* a destructive interleaving: with the store reachable all along, a call of
\* rebuild_collection raised because the init process deleted, created or
\* replaced the collection between two of its calls
C18_Witness ==
    /\ storeUp
    /\ ip2.pc = "done"
    /\ ip2.result = "raised"
    /\ ip.pc \in RunningInit \cup {"exited"}

\* C22: when rebuild_collection returns, the collection.add calls it made
\* each carried at least one and at most batch_size documents, every supplied
\* document went out in exactly one of them, there were ceil(n / batch_size)
\* calls, and the collection holds the n documents whatever the batch size.
C22_BatchLoading ==
    [][(ip2.pc \in RunningRebuild /\ ip2'.pc = "done" /\ ip2'.result = "returned")
        => LET adds == ip2'.adds
               n == ip2'.ndocs
               b == ip2'.batch_size
           IN  /\ \A i \in 1..Len(adds) :
                     /\ Cardinality(adds[i]) >= 1
                     /\ Cardinality(adds[i]) <= b
               /\ \A d \in load_documents(n) :
                     Cardinality({i \in 1..Len(adds) : d \in adds[i]}) = 1
               /\ \A i \in 1..Len(adds) : adds[i] \subseteq load_documents(n)
               /\ Len(adds) = (n + b - 1) \div b
               /\ coll'.docs = load_documents(n)]_vars

\* a call has returned after a full batch followed by a shorter last one
C22_Witness ==
    /\ ip2.pc = "done"
    /\ ip2.result = "returned"
    /\ Len(ip2.adds) >= 2
    /\ Cardinality(ip2.adds[1]) = ip2.batch_size
    /\ Cardinality(ip2.adds[Len(ip2.adds)]) < ip2.batch_size
    /\ coll # None
    /\ coll.docs = load_documents(ip2.ndocs)

\* C23: in every state of the store, a collection that carries an
\* embedding_config_id holds every document the rebuild run that stamped it
\* had to load.
C23_StampedIsComplete ==
    (coll # None /\ StoredStamp(coll) # None) => coll.docs = coll.want

\* C24: after any sequence of completed construct, refresh_state and query
\* calls on one instance: (a) a disconnected instance has no collection
\* attached, no stored fingerprint and no drift; (b) drift is only reported
\* with a collection attached; (c) a connected instance without drift and with
\* a collection attached holds the stored fingerprint equal to its own.
C24_CachedStateInvariant ==
    /\ ~svc.chroma_connected
        => /\ svc.collection = None
           /\ svc.collection_embedding_config_id = None
           /\ ~svc.embedding_drift_detected
    /\ svc.embedding_drift_detected => svc.collection # None
    /\ (svc.chroma_connected /\ ~svc.embedding_drift_detected
            /\ svc.collection # None)
        => svc.collection_embedding_config_id = CurrentFingerprint(svc)

\* a query was refused on a connected instance that holds a drifted
\* collection with a stamp other than its own fingerprint
C24_Witness ==
    /\ lastOp.op = "query"
    /\ Refused(lastOp)
    /\ svc.chroma_connected
    /\ svc.embedding_drift_detected
    /\ svc.collection # None
    /\ svc.collection_embedding_config_id # None
    /\ svc.collection_embedding_config_id # CurrentFingerprint(svc)

\* C25: the init process that finds the collection stamped with its own
\* fingerprint exits 0 and leaves the store as it is; one that finds another
\* stamp or none, with REBUILD_ON_EMBEDDING_MISMATCH false, exits 1 and leaves
\* the store as it is; and the init process goes on to delete a collection
\* it has listed only when that collection's stamp differs from the
\* fingerprint and the rebuild is enabled, and creates one only when none
\* exists.
C25_NonDestructiveInit ==
    [][/\ \A s \in Settings, r \in BOOLEAN :
            (MainGetCollection(s, r) /\ storeUp /\ coll # None)
                => /\ coll' = coll
                   /\ nextId' = nextId
                   /\ StoredStamp(coll) = config_id(main_embedding_config(s))
                        => (ip'.pc = "exited" /\ ip'.exit = "0")
                   /\ (StoredStamp(coll) # config_id(main_embedding_config(s))
                            /\ ~r)
                        => (ip'.pc = "exited" /\ ip'.exit = "1")
       /\ (ip.pc = "list" /\ ip'.pc = "delete")
            => /\ ip.rebuild_on_mismatch
               /\ StoredStamp(coll) # config_id(main_embedding_config(ip.settings))
       /\ (coll # None /\ coll' = None) => ip.pc = "delete"
       /\ (ip.pc = "create" /\ coll' # coll) => coll = None]_vars

-----------------------------------------------------------------------------
(* The fingerprint as a function *)

EmbeddingConfigs ==
    [model_name : HashedModelNames,
     implementation : HashedImplementations,
     version : HashedVersions]

\* EmbeddingConfig(...).config_id of two configurations
ComputeConfigIds(a, b) ==
    /\ calc' = [fn |-> "config_id", a |-> a, b |-> b,
                id_a |-> config_id(a), id_b |-> config_id(b)]
    /\ UNCHANGED <<settings, storeUp, coll, nextId, svc, lastOp, ip, resp,
                   ip2, rt, seen>>

NextFingerprint == \E a, b \in EmbeddingConfigs : ComputeConfigIds(a, b)

SpecFingerprint == Init /\ [][NextFingerprint]_vars

\* C20: config_id is 16 hex digits determined by the three fields: two
\* configurations with the same model_name, implementation and version have
\* the same config_id, and two that differ in a field have different ones
\* (no collision among the configurations considered).
C20_FingerprintSensitive ==
    calc.fn = "config_id" =>
        /\ Len(calc.id_a.hex) = 16
        /\ (calc.a = calc.b) => (calc.id_a = calc.id_b)
        /\ (calc.a # calc.b) => (calc.id_a # calc.id_b)

\* C20 witness: two configurations that differ in the version alone have
\* been fingerprinted, and their ids differ.
C20_Witness ==
    /\ calc.fn = "config_id"
    /\ calc.a.model_name = calc.b.model_name
    /\ calc.a.implementation = calc.b.implementation
    /\ calc.a.version # calc.b.version
    /\ calc.id_a # calc.id_b

-----------------------------------------------------------------------------
(* The model name as a function *)

\* longest raw model name considered
MaxNameLen == 5

NameChars == {" ", "F", "o"}

RECURSIVE SeqsUpTo(_, _)
SeqsUpTo(S, n) ==
    IF n = 0 THEN {<<>>}
    ELSE LET shorter == SeqsUpTo(S, n - 1)
         IN  shorter \cup {Append(q, c) : q \in shorter, c \in S}

\* Optional[str]: None, or a string of at most MaxNameLen characters
RawModelNames == {None} \cup {Str(q) : q \in SeqsUpTo(NameChars, MaxNameLen)}

\* normalise_model_name(raw_model_name)
Normalise(raw_model_name) ==
    /\ calc' = [fn |-> "normalise_model_name", raw |-> raw_model_name,
                out |-> normalise_model_name(raw_model_name)]
    /\ UNCHANGED <<settings, storeUp, coll, nextId, svc, lastOp, ip, resp,
                   ip2, rt, seen>>

NextNormalise == \E raw \in RawModelNames : Normalise(raw)

SpecNormalise == Init /\ [][NextNormalise]_vars

\* absent, empty or made of whitespace only
Blank(raw) ==
    raw = None \/ \A i \in 1..Len(raw.str) : raw.str[i] \in WHITESPACE

\* out is raw without the whitespace around it
TrimmedFrom(out, raw) ==
    /\ out.str # <<>>
    /\ Head(out.str) \notin WHITESPACE
    /\ out.str[Len(out.str)] \notin WHITESPACE
    /\ \E i \in 1..Len(raw.str) :
          /\ SubSeq(raw.str, i, i + Len(out.str) - 1) = out.str
          /\ i + Len(out.str) - 1 <= Len(raw.str)
          /\ \A j \in 1..Len(raw.str) :
                (j < i \/ j > i + Len(out.str) - 1) => raw.str[j] \in WHITESPACE

\* C21: normalise_model_name gives "default" for an absent, empty or
\* whitespace-only model name, and for any other name the name without its
\* surrounding whitespace.
C21_Normalisation ==
    calc.fn = "normalise_model_name" =>
        IF Blank(calc.raw) THEN calc.out = DEFAULT
        ELSE TrimmedFrom(calc.out, calc.raw)

====
